---------------------------- MODULE Spec2Model ----------------------------
(***************************************************************************)
(* Model of generate-api/src/generator.rs: the code generator that turns a *)
(* table of parsed locale objects into Rust constant declarations and the  *)
(* Locale enumeration.                                                     *)
(*                                                                         *)
(* Strings are sequences of one-character strings, so that replace,        *)
(* to_uppercase, the ordering of strings and the escaping done by {:?}     *)
(* are computed the way the code computes them.                            *)
(***************************************************************************)
EXTENDS Integers, Sequences, FiniteSets, TLC

(***************************************************************************)
(* Characters and strings                                                  *)
(***************************************************************************)

\* The printable ASCII characters in code-point order (0x20 .. 0x7E; the
\* backquote 0x60, which no string of the model holds, is left out).
Ascii ==
    << " ", "!", "\"", "#", "$", "%", "&", "'", "(", ")", "*", "+", ",", "-", ".", "/",
       "0", "1", "2", "3", "4", "5", "6", "7", "8", "9", ":", ";", "<", "=", ">", "?",
       "@", "A", "B", "C", "D", "E", "F", "G", "H", "I", "J", "K", "L", "M", "N", "O",
       "P", "Q", "R", "S", "T", "U", "V", "W", "X", "Y", "Z", "[", "\\", "]", "^", "_",
       "a", "b", "c", "d", "e", "f", "g", "h", "i", "j", "k", "l", "m", "n", "o",
       "p", "q", "r", "s", "t", "u", "v", "w", "x", "y", "z", "{", "|", "}", "~" >>

\* Position of a character in the code-point order.
Code(c) == CHOOSE i \in 1..Len(Ascii) : Ascii[i] = c

\* Ord::cmp on strings: lexicographic by code point, a proper prefix first.
RECURSIVE StrLess(_, _)
StrLess(s, t) ==
    IF t = <<>> THEN FALSE
    ELSE IF s = <<>> THEN TRUE
    ELSE IF Head(s) = Head(t) THEN StrLess(Tail(s), Tail(t))
    ELSE Code(Head(s)) < Code(Head(t))

StrLeq(s, t) == s = t \/ StrLess(s, t)

IsPrefix(p, s) == Len(p) <= Len(s) /\ SubSeq(s, 1, Len(p)) = p

\* str::replace: every non-overlapping match of pat, left to right.
RECURSIVE Replace(_, _, _)
Replace(s, pat, rep) ==
    IF s = <<>> THEN <<>>
    ELSE IF IsPrefix(pat, s)
         THEN rep \o Replace(SubSeq(s, Len(pat) + 1, Len(s)), pat, rep)
         ELSE <<Head(s)>> \o Replace(Tail(s), pat, rep)

\* char::to_uppercase on the ASCII range.
UpperChar(c) ==
    IF Code(c) >= Code("a") /\ Code(c) <= Code("z")
    THEN Ascii[Code(c) - (Code("a") - Code("A"))]
    ELSE c

ToUppercase(s) == [i \in 1..Len(s) |-> UpperChar(s[i])]

\* The {:?} rendering of a str: quoted, backslash and double quote escaped.
RECURSIVE EscapeDebug(_)
EscapeDebug(s) ==
    IF s = <<>> THEN <<>>
    ELSE (IF Head(s) \in {"\"", "\\"} THEN <<"\\", Head(s)>> ELSE <<Head(s)>>)
         \o EscapeDebug(Tail(s))

DebugStr(s) == <<"\"">> \o EscapeDebug(s) \o <<"\"">>

\* The decimal rendering of an i64 ({} and {:?} agree on integers).
RECURSIVE Digits(_)
Digits(n) ==
    IF n < 10 THEN <<Ascii[Code("0") + n]>>
    ELSE Digits(n \div 10) \o <<Ascii[Code("0") + (n % 10)]>>

DebugInt(n) == IF n < 0 THEN <<"-">> \o Digits(0 - n) ELSE Digits(n)

(***************************************************************************)
(* The object model (crate::parser)                                        *)
(*   Value   [tag, s, n]   tag is Raw, String or Integer; s is the text of *)
(*                         a Raw or String, n the number of an Integer     *)
(*   entry   [k, v]        a key and its values, the pair (String, Vec)    *)
(*   Object  [name, values]                                                *)
(*   locales               a function from locale names to object lists    *)
(***************************************************************************)

Raw(x)     == [tag |-> "Raw", s |-> x, n |-> 0]
String(x)  == [tag |-> "String", s |-> x, n |-> 0]
Integer(i) == [tag |-> "Integer", s |-> <<>>, n |-> i]

\* u8::from(&Value): one code per tag.
TagCode(v) ==
    CASE v.tag = "Raw" -> 1
      [] v.tag = "String" -> 2
      [] v.tag = "Integer" -> 3

\* format!("{}", value): the literal of the value in the generated source.
DisplayValue(v) == IF v.tag = "Integer" THEN DebugInt(v.n) ELSE DebugStr(v.s)

\* Itertools::all_equal: no two elements differ (true of the empty sequence).
AllEqual(seq) == \A i, j \in 1..Len(seq) : seq[i] = seq[j]

RECURSIVE Flatten(_)
Flatten(seqs) == IF seqs = <<>> THEN <<>> ELSE Head(seqs) \o Flatten(Tail(seqs))

Tags(values) == [i \in 1..Len(values) |-> TagCode(values[i])]

(***************************************************************************)
(* generate_object                                                         *)
(***************************************************************************)

\* The recursion of generate_object is followed this deep; a deeper call
\* ends the run as "overflow".
MaxDepth == 3

\* Mutation: the entries with no value are kept.
KeepAllEntries(values) == values

\* .filter(|x| !x.1.is_empty())
FilterNonEmpty(values) == SelectSeq(values, LAMBDA x : x.v # <<>>)

\* Mutation: an unstable sort, which puts an entry before the entries of the
\* same key already placed.
RECURSIVE InsertBeforeEqual(_, _)
InsertBeforeEqual(sorted, e) ==
    IF sorted = <<>> THEN <<e>>
    ELSE IF StrLeq(e.k, Head(sorted).k) THEN <<e>> \o sorted
    ELSE <<Head(sorted)>> \o InsertBeforeEqual(Tail(sorted), e)

\* Insertion into a sequence sorted by key, after the entries of the same key.
RECURSIVE InsertByKey(_, _)
InsertByKey(sorted, e) ==
    IF sorted = <<>> THEN <<e>>
    ELSE IF StrLess(e.k, Head(sorted).k) THEN <<e>> \o sorted
    ELSE <<Head(sorted)>> \o InsertByKey(Tail(sorted), e)

\* The identifier of a key: the chain of replace calls, then to_uppercase.
Sanitize(key) ==
    ToUppercase(
        Replace(
            Replace(
                Replace(
                    Replace(
                        Replace(
                            Replace(Replace(key, <<"'">>, <<>>), <<"\"">>, <<>>),
                            <<"-">>, <<"_">>),
                        <<"=">>, <<"e", "q">>),
                    <<"<">>, <<"l", "t">>),
                <<".", ".">>, <<"d", "o", "t", "d", "o", "t">>),
            <<"2">>, <<"t", "w", "o">>))

\* Mutation: the entries are sorted by the identifier of their key.
RECURSIVE SortedBySanitizedKey(_)
SortedBySanitizedKey(values) ==
    IF values = <<>> THEN <<>>
    ELSE LET n == Len(values)
             rest == SortedBySanitizedKey(SubSeq(values, 1, n - 1))
             e == values[n]
             before == SelectSeq(rest, LAMBDA x : ~StrLess(Sanitize(e.k), Sanitize(x.k)))
             after == SelectSeq(rest, LAMBDA x : StrLess(Sanitize(e.k), Sanitize(x.k)))
         IN before \o <<e>> \o after

\* .sorted_by(|a, b| Ord::cmp(&a.0, &b.0)): a stable sort by the raw key.
RECURSIVE SortedByKey(_)
SortedByKey(values) ==
    IF values = <<>> THEN <<>>
    ELSE InsertByKey(SortedByKey(SubSeq(values, 1, Len(values) - 1)),
                     values[Len(values)])

\* .group_by(|x| x.0.clone()): the runs of consecutive entries of one key,
\* each as [key, group], group being the value lists of the run.
RECURSIVE GroupBy(_)
GroupBy(values) ==
    IF values = <<>> THEN <<>>
    ELSE LET rest == GroupBy(Tail(values))
             e == Head(values)
         IN IF rest # <<>> /\ Head(rest).key = e.k
            THEN <<[key |-> e.k, group |-> <<e.v>> \o Head(rest).group]>> \o Tail(rest)
            ELSE <<[key |-> e.k, group |-> <<e.v>>]>> \o rest

\* Mutation: the directive keys are compared in upper case.
IsUpperCopyKey(key) == key = <<"C", "O", "P", "Y">> \/ key = <<"I", "N", "C", "L", "U", "D", "E">>

\* key == "copy" || key == "include", on the identifier of the key.
IsCopyKey(key) == key = <<"c", "o", "p", "y">> \/ key = <<"i", "n", "c", "l", "u", "d", "e">>

\* A constant declaration: pub const name: ty = rows; a scalar is one row of
\* one literal, a flat vector one row. (The doc comment, which repeats the
\* literal, is not kept.)
Const(name, ty, rows) == [kind |-> "const", name |-> name, ty |-> ty, rows |-> rows]

\* values.iter().map(|x| format!("{}", x)).join(", "): the literals of a row.
FormatRow(values) == [i \in 1..Len(values) |-> DisplayValue(values[i])]

\* The scalar branch: group.len() == 1 && group[0].len() == 1.
Scalar(key, singleton) ==
    IF singleton.tag = "Integer"
    THEN Const(key, "i64", <<<<DebugInt(singleton.n)>>>>)
    ELSE Const(key, "&str", <<<<DebugStr(singleton.s)>>>>)

\* The flat vector branch: one entry, all its values of one tag.
Vector(key, values) ==
    IF values[1].tag = "Integer"
    THEN Const(key, "&[i64]", <<FormatRow(values)>>)
    ELSE Const(key, "&[&str]", <<FormatRow(values)>>)

\* The vector-of-vectors branch: one row per entry of the group, typed by
\* group[0][0].
Matrix(key, group) ==
    IF group[1][1].tag = "Integer"
    THEN Const(key, "&[&[i64]]", [i \in 1..Len(group) |-> FormatRow(group[i])])
    ELSE Const(key, "&[&[&str]]", [i \in 1..Len(group) |-> FormatRow(group[i])])

\* The result of a call: what it wrote, and how it ended.
Ok(out)       == [out |-> out, st |-> "ok", err |-> "none"]
Panic(out, m) == [out |-> out, st |-> "panic", err |-> m]
Overflow(out) == [out |-> out, st |-> "overflow", err |-> "none"]

\* .find(|x| x.name == name): the first object of the name, if any.
FindObject(objects, name) ==
    IF \E i \in 1..Len(objects) : objects[i].name = name
    THEN <<objects[CHOOSE i \in 1..Len(objects) :
                     /\ objects[i].name = name
                     /\ \A j \in 1..(i - 1) : objects[j].name # name]>>
    ELSE <<>>

\* generate_object(f, object, locales): GroupLoop is the for loop over the key
\* groups from the i-th on, acc what the call has written so far.
RECURSIVE GenerateObject(_, _, _), GroupLoop(_, _, _, _, _, _)
GroupLoop(object, groups, i, locales, depth, acc) ==
    IF i > Len(groups) THEN Ok(acc)
    ELSE
    LET key == Sanitize(groups[i].key)
        group == groups[i].group
    IN  IF IsCopyKey(key)
        THEN IF group[1] = <<>> THEN Panic(acc, "index out of bounds")
             ELSE IF group[1][1].tag # "String"
             THEN Panic(acc, "only a string value is accepted for key copy")
             ELSE IF group[1][1].s \notin DOMAIN locales
             THEN Panic(acc, "unknown locale")
             ELSE LET found == FindObject(locales[group[1][1].s], object.name)
                  IN  IF found = <<>>
                      THEN Panic(acc, "could not find object to copy from")
                      ELSE IF depth >= MaxDepth THEN Overflow(acc)
                      ELSE LET r == GenerateObject(found[1], locales, depth + 1)
                           IN  IF r.st # "ok"
                               THEN [r EXCEPT !.out = acc \o r.out]
                               ELSE GroupLoop(object, groups, i + 1, locales, depth,
                                              acc \o r.out)
        ELSE IF Len(group) = 1 /\ group[1] = <<>> THEN Ok(acc)
        ELSE IF Len(group) = 1 /\ Len(group[1]) = 1
        THEN GroupLoop(object, groups, i + 1, locales, depth,
                       Append(acc, Scalar(key, group[1][1])))
        ELSE IF Len(group) = 1 /\ AllEqual(Tags(group[1]))
        THEN GroupLoop(object, groups, i + 1, locales, depth,
                       Append(acc, Vector(key, group[1])))
        ELSE IF AllEqual(Flatten([j \in 1..Len(group) |-> Tags(group[j])]))
        THEN IF group[1] = <<>> THEN Panic(acc, "index out of bounds")
             ELSE GroupLoop(object, groups, i + 1, locales, depth,
                            Append(acc, Matrix(key, group)))
        ELSE Panic(acc, "not implemented: mixed types")

GenerateObject(object, locales, depth) ==
    GroupLoop(object, GroupBy(SortedByKey(FilterNonEmpty(object.values))), 1,
              locales, depth, <<>>)

(***************************************************************************)
(* generate_locale                                                         *)
(***************************************************************************)

LC_COLLATE        == <<"L", "C", "_", "C", "O", "L", "L", "A", "T", "E">>
LC_CTYPE          == <<"L", "C", "_", "C", "T", "Y", "P", "E">>
LC_MEASUREMENT    == <<"L", "C", "_", "M", "E", "A", "S", "U", "R", "E", "M", "E", "N", "T">>
LC_PAPER          == <<"L", "C", "_", "P", "A", "P", "E", "R">>
LC_NAME           == <<"L", "C", "_", "N", "A", "M", "E">>
LC_IDENTIFICATION == <<"L", "C", "_", "I", "D", "E", "N", "T", "I", "F", "I", "C", "A", "T", "I", "O", "N">>
LC_TIME           == <<"L", "C", "_", "T", "I", "M", "E">>

\* The categories generate_locale passes over.
Excluded == {LC_COLLATE, LC_CTYPE, LC_MEASUREMENT, LC_PAPER, LC_NAME}

\* lang.replace("@", "_")
Normalize(lang) == Replace(lang, <<"@">>, <<"_">>)

\* The items of a locale module: pub mod name { body } and
\* pub use super::target::name;
Mod(name, body)   == [kind |-> "mod", name |-> name, target |-> <<>>, body |-> body]
Use(target, name) == [kind |-> "use", name |-> name, target |-> target, body |-> <<>>]

\* .sorted_by_key(|x| x.name.to_string()): a stable sort of the objects.
RECURSIVE SortedByName(_)
SortedByName(objects) ==
    IF objects = <<>> THEN <<>>
    ELSE LET n == Len(objects)
             rest == SortedByName(SubSeq(objects, 1, n - 1))
             o == objects[n]
         IN SelectSeq(rest, LAMBDA x : ~StrLess(o.name, x.name)) \o <<o>>
            \o SelectSeq(rest, LAMBDA x : StrLess(o.name, x.name))

\* The for loop of generate_locale from the i-th object on, acc the items
\* written so far.
RECURSIVE ObjectLoop(_, _, _, _)
ObjectLoop(objects, i, locales, acc) ==
    IF i > Len(objects) THEN Ok(acc)
    ELSE
    LET object == objects[i]
    IN  IF object.name \in Excluded
        THEN ObjectLoop(objects, i + 1, locales, acc)
        ELSE IF Len(object.values) = 1
        THEN IF object.values[1].k = <<"c", "o", "p", "y">>
             THEN IF Len(object.values[1].v) # 1
                  THEN Panic(acc, "assertion failed: value.len() == 1")
                  ELSE IF object.values[1].v[1].tag = "String"
                  THEN ObjectLoop(objects, i + 1, locales,
                           Append(acc, Use(Normalize(object.values[1].v[1].s), object.name)))
                  ELSE Panic(acc, "unexpected value for key copy")
             ELSE ObjectLoop(objects, i + 1, locales, acc)
        ELSE LET r == GenerateObject(object, locales, 0)
             IN  IF r.st # "ok"
                 THEN [r EXCEPT !.out = acc]
                 ELSE ObjectLoop(objects, i + 1, locales,
                                 Append(acc, Mod(object.name, r.out)))

\* generate_locale(f, lang_normalized, objects, locales): the module of the
\* locale, or the panic that ended the call.
GenerateLocale(lang_normalized, objects, locales) ==
    LET r == ObjectLoop(SortedByName(objects), 1, locales, <<>>)
    IN  [r EXCEPT !.out = Mod(lang_normalized, r.out)]

(***************************************************************************)
(* generate_variants and CodeGenerator::fmt                                *)
(***************************************************************************)

POSIX == <<"P", "O", "S", "I", "X">>

\* The description of a locale: the first title of its LC_IDENTIFICATION, a
\* full stop added when it ends with none; failing that the fixed text of
\* POSIX, or nothing.
Desc(lang, objects) ==
    LET found == FindObject(objects, LC_IDENTIFICATION)
        titles == IF found = <<>> THEN <<>>
                  ELSE SelectSeq(found[1].values, LAMBDA e : e.k = <<"t", "i", "t", "l", "e">>)
        fallback == IF lang = POSIX THEN <<"P", "O", "S", "I", "X", " ", "S", "t", "a", "n", "d", "a", "r", "d", " ", "L", "o", "c", "a", "l", "e", ".">> ELSE <<>>
    IN  IF titles # <<>> /\ titles[1].v # <<>> /\ titles[1].v[1].tag = "String"
        THEN LET title == titles[1].v[1].s
             IN  IF title # <<>> /\ title[Len(title)] = "." THEN title
                 ELSE title \o <<".">>
        ELSE fallback

\* sort_unstable_by_key(|(lang, ..)| lang.to_string()) over the keys of the
\* table, which are distinct.
RECURSIVE SortedNames(_)
SortedNames(names) ==
    IF names = {} THEN <<>>
    ELSE LET least == CHOOSE x \in names : \A y \in names : StrLeq(x, y)
         IN  <<least>> \o SortedNames(names \ {least})

\* The (lang, norm, desc) triples fmt hands to generate_variants.
Langs(locales) ==
    LET sorted == SortedNames(DOMAIN locales)
    IN  [i \in 1..Len(sorted) |->
            [lang |-> sorted[i], norm |-> Normalize(sorted[i]),
             desc |-> Desc(sorted[i], locales[sorted[i]])]]

\* One variant of the enum: its doc line, #[default] on POSIX, its name.
Variant(l) == [doc |-> <<l.lang, l.desc>>, default |-> (l.lang = POSIX), name |-> l.norm]

\* One arm of try_from: {lang:?} => Ok(Locale::{norm}),
TryFromArm(l) == [pat |-> DebugStr(l.lang), variant |-> l.norm]

\* Mutation: the arm of Display renders the name of the variant.
DisplayArmOfNorm(l) == [variant |-> l.norm, lit |-> DebugStr(l.norm)]

\* One arm of Display: Locale::{norm} => {lang:?},
DisplayArm(l) == [variant |-> l.norm, lit |-> DebugStr(l.lang)]

\* One arm of locale_match!: $crate::Locale::{norm} => $crate::{norm}::...
MatchArm(l) == [variant |-> l.norm, module |-> l.norm]

\* generate_variants(f, langs): the enum, its conversions and the macro.
GenerateVariants(langs) ==
    [variants     |-> [i \in 1..Len(langs) |-> Variant(langs[i])],
     try_from     |-> [i \in 1..Len(langs) |-> TryFromArm(langs[i])],
     display      |-> [i \in 1..Len(langs) |-> DisplayArm(langs[i])],
     locale_match |-> [i \in 1..Len(langs) |-> MatchArm(langs[i])]]

(***************************************************************************)
(* The inputs                                                              *)
(***************************************************************************)

\* At most this many entries in the object under generation.
MaxEntries == 2

NameAB  == <<"a", "@", "b">>
NameA_B == <<"a", "_", "b">>
NameB   == <<"b">>

\* Two of the names have one normalized identifier.
LocaleNames == {NameAB, NameA_B, NameB}

KeyCopy    == <<"c", "o", "p", "y">>
KeyInclude == <<"i", "n", "c", "l", "u", "d", "e">>
KeyDay     == <<"d", "a", "y">>
KeyDQuoteAy == <<"d", "'", "a", "y">>
KeyZ2      == <<"Z", "-", "2">>
KeyTitle   == <<"t", "i", "t", "l", "e">>

TextQ == <<"M", "\"">>
TextR == <<"x">>

Entry(k, v) == [k |-> k, v |-> v]

\* The entries an object is made of: the directives with a good and a bad
\* value, and three plain keys of which two have one identifier and one sorts
\* before the others raw but after them once sanitized.
EntryPool ==
    { Entry(KeyCopy, <<String(NameAB)>>),
      Entry(KeyCopy, <<Integer(7)>>),
      Entry(KeyInclude, <<String(NameB)>>),
      Entry(KeyDay, <<String(TextQ)>>),
      Entry(KeyDay, <<String(TextR), String(TextQ)>>),
      Entry(KeyDQuoteAy, <<>>),
      Entry(KeyDQuoteAy, <<Raw(TextR)>>),
      Entry(KeyZ2, <<Integer(7), Integer(12)>>),
      Entry(KeyDay, <<String(TextQ), Integer(7)>>) }

EntryLists == UNION {[1..n -> EntryPool] : n \in 0..MaxEntries}

Object(name, values) == [name |-> name, values |-> values]

\* The object lists of the second locale of a table.
OtherObjects ==
    { <<>>,
      <<Object(LC_TIME, <<Entry(KeyDay, <<String(TextQ)>>),
                          Entry(KeyZ2, <<Integer(7), Integer(12)>>)>>)>>,
      <<Object(LC_TIME, <<Entry(KeyCopy, <<String(NameB)>>),
                          Entry(KeyDay, <<String(TextQ)>>)>>)>>,
      <<Object(LC_TIME, <<Entry(KeyCopy, <<String(NameB)>>)>>)>>,
      <<Object(LC_TIME, <<Entry(KeyDay, <<String(TextR)>>),
                          Entry(KeyDay, <<String(TextQ)>>)>>),
        Object(LC_PAPER, <<Entry(KeyDay, <<String(TextQ), Integer(7)>>),
                           Entry(KeyCopy, <<String(NameB)>>)>>),
        Object(LC_IDENTIFICATION, <<Entry(KeyTitle, <<String(TextR)>>),
                                    Entry(KeyDay, <<String(TextQ)>>)>>)>> }

\* The tables: one locale with an LC_TIME of up to MaxEntries entries, alone
\* or beside a second locale.
Tables ==
    { (n :> <<Object(LC_TIME, es)>>) : n \in LocaleNames, es \in EntryLists }
    \cup
    { (n :> <<Object(LC_TIME, es)>>) @@ (m :> os) :
        n \in LocaleNames, es \in EntryLists,
        m \in LocaleNames, os \in OtherObjects }

(***************************************************************************)
(* The run of CodeGenerator::fmt                                           *)
(***************************************************************************)

VARIABLES
    locales,    \* self.0, the table, read only
    pc,         \* start, locales, done, or how the run ended: panic, overflow
    sorted,     \* the names of the table in the order of the first loop
    idx,        \* the position of that loop in sorted
    out,        \* the locale modules written so far
    enum,       \* what generate_variants wrote: empty, or the one record
    err         \* the message of the panic

vars == <<locales, pc, sorted, idx, out, enum, err>>

Init ==
    /\ locales \in Tables
    /\ pc = "start"
    /\ sorted = <<>>
    /\ idx = 1
    /\ out = <<>>
    /\ enum = <<>>
    /\ err = "none"

\* The head of fmt: the header is written and the names are sorted.
Begin ==
    /\ pc = "start"
    /\ sorted' = SortedNames(DOMAIN locales)
    /\ pc' = "locales"
    /\ UNCHANGED <<locales, idx, out, enum, err>>

\* One turn of the first loop of fmt: generate_locale on the next locale; a
\* panic in it ends the run.
LocaleStep ==
    /\ pc = "locales"
    /\ idx <= Len(sorted)
    /\ LET r == GenerateLocale(Normalize(sorted[idx]), locales[sorted[idx]], locales)
       IN  IF r.st = "ok"
           THEN /\ out' = Append(out, r.out)
                /\ idx' = idx + 1
                /\ UNCHANGED <<pc, err>>
           ELSE /\ pc' = r.st
                /\ err' = r.err
                /\ UNCHANGED <<out, idx>>
    /\ UNCHANGED <<locales, sorted, enum>>

\* The tail of fmt: the triples are built and sorted, generate_variants runs.
VariantsStep ==
    /\ pc = "locales"
    /\ idx > Len(sorted)
    /\ enum' = <<GenerateVariants(Langs(locales))>>
    /\ pc' = "done"
    /\ UNCHANGED <<locales, sorted, idx, out, err>>

Next == Begin \/ LocaleStep \/ VariantsStep

Spec == Init /\ [][Next]_vars

(***************************************************************************)
(* The generated source, as the compiler of the generated crate reads it   *)
(***************************************************************************)

\* The text a string literal written with {:?} denotes.
RECURSIVE Unescape(_)
Unescape(s) ==
    IF s = <<>> THEN <<>>
    ELSE IF Head(s) = "\\" /\ Len(s) >= 2
         THEN <<s[2]>> \o Unescape(SubSeq(s, 3, Len(s)))
         ELSE <<Head(s)>> \o Unescape(Tail(s))

ParseStrLiteral(lit) == Unescape(SubSeq(lit, 2, Len(lit) - 1))

\* Locale::try_from(i): the first arm whose pattern is i, as <<variant>>;
\* <<>> is Err(UnknownLocale).
TryFrom(e, i) ==
    LET hits == {a \in 1..Len(e.try_from) : ParseStrLiteral(e.try_from[a].pat) = i}
    IN  IF hits = {} THEN <<>>
        ELSE <<e.try_from[CHOOSE a \in hits : \A b \in hits : a <= b].variant>>

\* Display::fmt of a variant: the literal of the first arm of the variant.
Display(e, v) ==
    LET hits == {a \in 1..Len(e.display) : e.display[a].variant = v}
    IN  ParseStrLiteral(e.display[CHOOSE a \in hits : \A b \in hits : a <= b].lit)

\* What the path norm::name of the generated crate gives access to: the
\* constants of the module of that name, through pub use if it is an alias.
RECURSIVE Exposed(_, _, _)
Exposed(norm, name, fuel) ==
    LET mods == {i \in 1..Len(out) : out[i].name = norm}
        m == out[CHOOSE i \in mods : \A j \in mods : i <= j]
        items == {k \in 1..Len(m.body) : m.body[k].name = name}
        item == m.body[CHOOSE k \in items : \A l \in items : k <= l]
    IN  IF mods = {} \/ items = {} THEN {}
        ELSE IF item.kind = "mod" THEN {item.body[k] : k \in 1..Len(item.body)}
        ELSE IF fuel = 0 THEN {}
        ELSE Exposed(item.target, name, fuel - 1)

(***************************************************************************)
(* The properties                                                          *)
(*                                                                         *)
(* out[i] is the module of the locale sorted[i].  An object of a locale    *)
(* is handed to generate_object when it is not excluded and has not        *)
(* exactly one entry; its module is then the item of its name in out[i].   *)
(***************************************************************************)

Range(seq) == {seq[i] : i \in 1..Len(seq)}

ObjectsAt(i) == Range(locales[sorted[i]])

KeysOf(o) == {e.k : e \in Range(o.values)}

\* The value lists of the entries of key k, in source order.
EntriesOf(o, k) ==
    LET es == SelectSeq(o.values, LAMBDA e : e.k = k)
    IN  [j \in 1..Len(es) |-> es[j].v]

NonEmpty(group) == SelectSeq(group, LAMBDA v : v # <<>>)

SameTag(group) == \A v, w \in Range(Flatten(group)) : v.tag = w.tag

HandedOn(o) == o.name \notin Excluded /\ Len(o.values) # 1

\* The modules written for the object o of the locale sorted[i].
ModulesOf(i, o) == {m \in Range(out[i].body) : m.kind = "mod" /\ m.name = o.name}

IsDirective(k) == k \in {KeyCopy, KeyInclude}

\* An object none of whose keys is a directive.
Plain(o) == \A k \in KeysOf(o) : ~IsDirective(k)

\* The value the literal of a scalar constant denotes.
LiteralIs(c, v) ==
    /\ Len(c.rows) = 1
    /\ Len(c.rows[1]) = 1
    /\ IF v.tag = "Integer"
       THEN c.ty = "i64" /\ c.rows[1][1] = DebugInt(v.n)
       ELSE c.ty = "&str" /\ ParseStrLiteral(c.rows[1][1]) = v.s

\* C1: once a run is complete, every object that is not excluded and has
\* exactly one entry of exactly one value, the key not being copy, has in the
\* module of its locale exactly one scalar constant, whose literal is the
\* value and whose type is that of the tag of the value.
C1_LoneScalarEmitted ==
    pc = "done" =>
        \A i \in 1..Len(out) : \A o \in ObjectsAt(i) :
            ( /\ o.name \notin Excluded
              /\ Len(o.values) = 1
              /\ Len(o.values[1].v) = 1
              /\ o.values[1].k # KeyCopy )
            => /\ Cardinality(ModulesOf(i, o)) = 1
               /\ \A m \in ModulesOf(i, o) :
                    /\ Len(m.body) = 1
                    /\ LiteralIs(m.body[1], o.values[1].v[1])

IsCopyOnly(o) ==
    /\ o.name \notin Excluded
    /\ Len(o.values) = 1
    /\ o.values[1].k = KeyCopy
    /\ Len(o.values[1].v) = 1
    /\ o.values[1].v[1].tag = "String"

\* The object the directive value v of an object named name refers to, as
\* <<object>>; <<>> when v is no string, names no locale of the table, or the
\* locale has no object of the name.
Target(v, name) ==
    IF v.tag = "String" /\ v.s \in DOMAIN locales
    THEN FindObject(locales[v.s], name)
    ELSE <<>>

\* C2: once a run is complete, what the alias written for a copy-only object
\* gives access to under the namespace of its locale is what generate_object
\* writes for that object (the directive naming an object of the table for
\* which a module is written).
C2_AliasIsInline ==
    pc = "done" =>
        \A i \in 1..Len(out) : \A o \in ObjectsAt(i) :
            ( /\ IsCopyOnly(o)
              /\ Target(o.values[1].v[1], o.name) # <<>>
              /\ HandedOn(Target(o.values[1].v[1], o.name)[1]) ) =>
                LET r == GenerateObject(o, locales, 0)
                IN  /\ r.st = "ok"
                    /\ Exposed(out[i].name, o.name, Len(out)) = Range(r.out)

IsMatrixOf(c, k, group) ==
    /\ c.name = Sanitize(k)
    /\ c.ty \in {"&[&[&str]]", "&[&[i64]]"}
    /\ Len(c.rows) = Len(group)
    /\ \A r \in 1..Len(group) : c.rows[r] = FormatRow(group[r])

RoundTrips(lang) ==
    /\ TryFrom(enum[1], lang) # <<>>
    /\ Display(enum[1], TryFrom(enum[1], lang)[1]) = lang

\* C4 as stated: once a run is complete, try_from succeeds on every name of
\* the table and Display renders the variant it gives as that name.
C4_RoundTrip ==
    pc = "done" => \A lang \in DOMAIN locales : RoundTrips(lang)

DistinctIdentifiers ==
    \A x, y \in DOMAIN locales : Normalize(x) = Normalize(y) => x = y

\* C4 as amended: the same of a table no two names of which have one
\* normalized identifier.
C4_RoundTripDistinct ==
    (pc = "done" /\ DistinctIdentifiers) => \A lang \in DOMAIN locales : RoundTrips(lang)

\* A run is complete on two locales of distinct identifiers, one with an @.
C4_Witness ==
    /\ pc = "done"
    /\ DistinctIdentifiers
    /\ Cardinality(DOMAIN locales) = 2
    /\ NameAB \in DOMAIN locales
    /\ RoundTrips(NameAB)

\* The entries of an object that are directives holding a value.
Directives(o) == {e \in Range(o.values) : IsDirective(e.k) /\ e.v # <<>>}

\* C5: in the module of an object handed to generate_object, a directive
\* that names an object of another locale of the table leaves no constant
\* named after its key and leaves the constants of the object it names.
C5_DirectiveRedirects ==
    \A i \in 1..Len(out) : \A o \in ObjectsAt(i) : \A e \in Directives(o) :
        (HandedOn(o) /\ Target(e.v[1], o.name) # <<>> /\ e.v[1].s # sorted[i])
        => \A m \in ModulesOf(i, o) :
             /\ \A c \in Range(m.body) : c.name # Sanitize(e.k)
             /\ LET r == GenerateObject(Target(e.v[1], o.name)[1], locales, 1)
                IN  r.st = "ok" => Range(r.out) \subseteq Range(m.body)

\* A directive is well formed when it holds one value, a string that names
\* a locale of the table which has an object of the name.
WellFormed(e, name) == Len(e.v) = 1 /\ Target(e.v[1], name) # <<>>

\* C6: a run is complete only if every directive of every object that is not
\* excluded is well formed, be the object a copy alone or one of several
\* entries.
C6_BadDirectiveFails ==
    pc = "done" =>
        \A lang \in DOMAIN locales : \A o \in Range(locales[lang]) :
            o.name \notin Excluded =>
                \A e \in Range(o.values) :
                    ( /\ IsDirective(e.k)
                      /\ (Len(o.values) = 1 => e.k = KeyCopy) )
                    => WellFormed(e, o.name)

\* C7: a run is complete only if no key of an object that is not excluded
\* has, in one entry or across its entries, values of different tags.
C7_MixedGroupFails ==
    pc = "done" =>
        \A lang \in DOMAIN locales : \A o \in Range(locales[lang]) :
            o.name \notin Excluded =>
                \A k \in KeysOf(o) : SameTag(EntriesOf(o, k))

\* The keys of o that have an entry holding a value.
LiveKeys(o) == {k \in KeysOf(o) : NonEmpty(EntriesOf(o, k)) # <<>>}

\* The key k of o has one entry, which holds no value.
LoneEmpty(o, k) == EntriesOf(o, k) = << <<>> >>

C9_AscendingIdentifiers ==
    \A i \in 1..Len(out) : \A o \in ObjectsAt(i) :
        (HandedOn(o) /\ Plain(o)) => \A m \in ModulesOf(i, o) :
            \A a, b \in 1..Len(m.body) :
                a < b => StrLess(m.body[a].name, m.body[b].name)

\* C9 as amended: the constants of the module are, in order, those of the
\* raw keys that have an entry holding a value, in the strictly ascending
\* order of the raw keys.
C9_AscendingRawKeys ==
    \A i \in 1..Len(out) : \A o \in ObjectsAt(i) :
        HandedOn(o) =>
            /\ ModulesOf(i, o) # {}
            /\ \A m \in ModulesOf(i, o) :
                 LET ks == SortedNames(LiveKeys(o))
                 IN  /\ Len(m.body) = Len(ks)
                     /\ \A a \in 1..Len(ks) : m.body[a].name = Sanitize(ks[a])

\* A module was written whose constants do not ascend by identifier.
C9_Witness ==
    \E i \in 1..Len(out) : \E o \in ObjectsAt(i) :
        /\ HandedOn(o)
        /\ Plain(o)
        /\ \E m \in ModulesOf(i, o) : \E a, b \in 1..Len(m.body) :
             a < b /\ StrLess(m.body[b].name, m.body[a].name)

\* The turns of the loops of fmt still to come.
TurnsLeft ==
    CASE pc = "start" -> Cardinality(DOMAIN locales) + 2
      [] pc = "locales" -> Len(sorted) - idx + 2
      [] OTHER -> 0

\* C10: every run ends, complete or with a panic: no call of generate_object
\* is left in a recursion deeper than any bound, and each step of the run
\* takes one of the finitely many turns that are left.
C10_RunEnds ==
    /\ [](pc \in {"start", "locales", "done", "panic"} /\ TurnsLeft >= 0)
    /\ [][TurnsLeft' < TurnsLeft]_vars

\* The object of the locale lang that a directive among several entries
\* sends to the locale other.
SendsTo(lang, other) ==
    \E o \in Range(locales[lang]) :
        /\ o.name \notin Excluded
        /\ Len(o.values) > 1
        /\ \E e \in Range(o.values) : IsDirective(e.k) /\ e.v = <<String(other)>>
        /\ FindObject(locales[other], o.name) # <<>>

\* A run is complete on a table in which two locales send to each other.
C10_Witness ==
    /\ pc = "done"
    /\ \E x, y \in DOMAIN locales : x # y /\ SendsTo(x, y) /\ SendsTo(y, x)

=============================================================================
